---- MODULE Spec2Model ----
(***************************************************************************)
(* Model of the sniper-game front end:                                     *)
(*   - WaveformVisualizer.tsx: the frequency / samplingRate state, the two *)
(*     memoised point lists and the Nyquist check;                         *)
(*   - api.tsx renderScopeWebSocket: one WebSocket per call, its handlers, *)
(*     and the consumer callbacks onData / onError;                        *)
(*   - TitleMessage.tsx: the mount effect, the page's one HTTP request.    *)
(*                                                                         *)
(* Numbers.  The sliders move in steps of 0.1 Hz (frequency) and 0.5 Hz    *)
(* (samplingRate), so both are held as integers in tenths of a hertz       *)
(* (Scale = 10).  Every derived quantity (t, x, the sine argument) is an   *)
(* exact fraction <<numerator, denominator>> in lowest terms with a        *)
(* positive denominator; <<0, 0>> is NaN and <<1, 0>>, <<-1, 0>> are the   *)
(* infinities, as IEEE division produces them.  Math.sin is not computed:  *)
(* a y value is identified by the argument the code passes to Math.sin,    *)
(* kept in turns (frequency * t).                                          *)
(***************************************************************************)
EXTENDS Integers, Sequences, FiniteSets, TLC

VARIABLES
    frequency,          \* useState(2): signal frequency, tenths of Hz
    samplingRate,       \* useState(20): sampling rate, tenths of Hz
    trueSignalPoints,   \* useMemo value, deps [frequency]
    sampledPoints,      \* useMemo value, deps [frequency, samplingRate]
    statusLabel,        \* the label rendered from isAliasing
    sampleMarkers,      \* the rendered sample markers (the red dots)
    reconstructedPath,  \* the rendered path through the samples
    outcome,            \* "none" before the sampling callback ran, then how it ended
    titleEffectRan,     \* TitleMessage's mount effect has run
    httpRequests,       \* number of HTTP requests issued through fetch
    calls,              \* number of calls of renderScopeWebSocket so far
    sockets,            \* one record per `new WebSocket`, in creation order
    sessions,           \* the server's StreamSession of each connection
    version,            \* per scope: version of its current parameter snapshot
    textSent            \* number of text frames sent that are no JSON

vizVars == <<frequency, samplingRate, trueSignalPoints, sampledPoints,
             statusLabel, sampleMarkers, reconstructedPath, outcome>>

appVars == <<titleEffectRan, httpRequests>>

wsVars == <<calls, sockets, sessions, version, textSent>>

vars == <<vizVars, appVars, wsVars>>

\* ------------------------------------------------------------ constants

\* Tenths of a hertz per hertz: the frequency slider's step is 0.1.
Scale == 10

DURATION == 2
AMPLITUDE == 80
CENTER_Y == 150
resolution == 1000

\* Bounds of the streaming model.
MaxCalls == 2
MaxPushes == 3

\* Depth of a session's pending queue.
QueueDepth == 1

\* Slider attributes (min, max, step), in tenths of a hertz.
FREQ_MIN == 5
FREQ_MAX == 100
FREQ_STEP == 1
RATE_MIN == 10
RATE_MAX == 500
RATE_STEP == 5

\* useState initial values, in tenths of a hertz.
FREQ_INIT == 20
RATE_INIT == 200

\* ------------------------------------------------------------ arithmetic

Abs(n) == IF n < 0 THEN 0 - n ELSE n

RECURSIVE GCD(_, _)
GCD(a, b) == IF b = 0 THEN a ELSE GCD(b, a % b)

NaN == <<0, 0>>

\* n / d as IEEE division of two exactly represented numbers gives it, kept
\* exact: lowest terms, positive denominator; 0/0 is NaN, n/0 an infinity.
Rat(n, d) ==
    IF d = 0
    THEN (IF n = 0 THEN NaN ELSE IF n > 0 THEN <<1, 0>> ELSE <<-1, 0>>)
    ELSE LET s == IF d < 0 THEN -1 ELSE 1
             g == GCD(Abs(n), Abs(d))
         IN  <<(s * n) \div g, (s * d) \div g>>

IsNaN(r) == r = NaN
IsFinite(r) == r[2] > 0

\* a < b and a <= b as IEEE comparison: false when either side is NaN.
RatLess(a, b) ==
    /\ ~IsNaN(a) /\ ~IsNaN(b)
    /\ IF IsFinite(a) /\ IsFinite(b) THEN a[1] * b[2] < b[1] * a[2]
       ELSE IF IsFinite(a) THEN b[1] > 0
       ELSE IF IsFinite(b) THEN a[1] < 0
       ELSE a[1] < b[1]

RatLeq(a, b) == ~IsNaN(a) /\ ~IsNaN(b) /\ (a = b \/ RatLess(a, b))

\* ------------------------------------------------------------ WaveformVisualizer

\* CENTER_Y - AMPLITUDE * Math.sin(2 * Math.PI * frequency * t), with the
\* sine left symbolic: turns = frequency * t is the sine's argument / (2 pi).
SignalY(f, t) ==
    [base |-> CENTER_Y, scale |-> AMPLITUDE, sinTurns |-> Rat(f * t[1], Scale * t[2])]

\* Mutant: the division by DURATION left out, t * 100.
ProjectXUnscaled(t) == Rat(t[1] * 100, t[2])

\* (t / DURATION) * 100
ProjectX(t) == Rat(t[1] * 100, t[2] * DURATION)

\* One iteration of the reference loop: t = i / resolution, and the pushed
\* string `${x}% ${y}px` as the pair of numbers it prints.
TruePointAt(f, i) ==
    LET t == Rat(i, resolution)
    IN  [x |-> ProjectX(t), y |-> SignalY(f, t)]

\* Mutant: the reference pass stepped at the player's sampling rate.
TrueSignalPointsAtRate(f) ==
    [k \in 1..((DURATION * samplingRate) \div Scale + 1) |->
        LET t == Rat((k - 1) * Scale, samplingRate)
        IN  [x |-> ProjectX(t), y |-> SignalY(f, t)]]

\* for (let i = 0; i <= DURATION * resolution; i++) ... points.join(', ')
TrueSignalPointsOf(f) ==
    [k \in 1..(DURATION * resolution + 1) |-> TruePointAt(f, k - 1)]

\* Mutant: the loop bound of `i < totalSamples`.
totalSamplesExclusive(fs) == ((DURATION * fs) \div Scale) - 1

\* Math.floor(DURATION * samplingRate)
totalSamples(fs) == (DURATION * fs) \div Scale

\* Mutant: a one-based sample index, t = (i + 1) / samplingRate.
SampleAtOneBased(f, fs, i) ==
    LET t == Rat((i + 1) * Scale, fs)
    IN  [x |-> ProjectX(t), y |-> SignalY(f, t), t |-> t]

\* One iteration of the sampling loop: t = i / samplingRate.
SampleAt(f, fs, i) ==
    LET t == Rat(i * Scale, fs)
    IN  [x |-> ProjectX(t), y |-> SignalY(f, t), t |-> t]

\* for (let i = 0; i <= totalSamples; i++) points.push({ x, y, t })
SampledPointsOf(f, fs) ==
    [k \in 1..(totalSamples(fs) + 1) |-> SampleAt(f, fs, k - 1)]

\* Mutant: the boundary fs = 2f counted as aliasing.
isAliasingInclusive(f, fs) == fs <= 2 * f

\* samplingRate < 2 * frequency
isAliasing(f, fs) == fs < 2 * f

\* {isAliasing ? '(ALIASING WARNING)' : '(OK)'}
StatusLabelOf(f, fs) == IF isAliasing(f, fs) THEN "(ALIASING WARNING)" ELSE "(OK)"

\* Mutant: the frequency slider with min="0".
FrequencySliderFromZero == {v \in 0..FREQ_MAX : v % FREQ_STEP = 0}

\* Values a range input can hold: min + k * step, at most max.
FrequencySlider == {v \in FREQ_MIN..FREQ_MAX : (v - FREQ_MIN) % FREQ_STEP = 0}
SamplingRateSlider == {v \in RATE_MIN..RATE_MAX : (v - RATE_MIN) % RATE_STEP = 0}

\* The slider positions explored: both ends of the slider and some between.
FrequencyInputs ==
    {v \in FrequencySlider :
        \/ \A w \in FrequencySlider : v <= w
        \/ \A w \in FrequencySlider : v >= w
        \/ v \in {20, 25, 50, 52, 77}}
SamplingRateInputs ==
    {10, 15, 40, 45, 50, 100, 105, 150, 155, 200, 205, 250, 300, 400, 495, 500}
        \cap SamplingRateSlider

\* sampledPoints.map((point, i) => <div key={i} style={{ left: `${point.x}%`,
\* top: `${point.y}px`, ... }} />): one marker per sample, in array order.
SampleMarkersOf(points) ==
    [k \in 1..Len(points) |->
        [key |-> k - 1, left |-> points[k].x, top |-> points[k].y]]

\* Mutant: the path stops one sample short.
ReconstructedPathShort(points) ==
    [k \in 1..(Len(points) - 1) |->
        [cmd |-> IF k = 1 THEN "M" ELSE "L", x |-> points[k].x, y |-> points[k].y]]

\* d={`M ${sampledPoints.map((p) => `${p.x} ${p.y}`).join(' L ')}`}: the path
\* data as its commands, a moveto to the first sample and a lineto to each
\* sample after it.
ReconstructedPathOf(points) ==
    [k \in 1..Len(points) |->
        [cmd |-> IF k = 1 THEN "M" ELSE "L", x |-> points[k].x, y |-> points[k].y]]

\* Mutant: frequency left out of the dependency list of sampledPoints.
RenderWithoutFrequencyDependency(f, fs) ==
    /\ trueSignalPoints' =
           IF f # frequency THEN TrueSignalPointsOf(f) ELSE trueSignalPoints
    /\ sampledPoints' =
           IF fs # samplingRate
           THEN SampledPointsOf(f, fs) ELSE sampledPoints
    /\ statusLabel' = StatusLabelOf(f, fs)
    /\ sampleMarkers' = SampleMarkersOf(sampledPoints')
    /\ reconstructedPath' = ReconstructedPathOf(sampledPoints')
    /\ outcome' = "returned"

\* One render with state (f, fs): each useMemo recomputes when one of its
\* dependencies differs from the previous render's, else keeps its value.
Render(f, fs) ==
    /\ trueSignalPoints' =
           IF f # frequency THEN TrueSignalPointsOf(f) ELSE trueSignalPoints
    /\ sampledPoints' =
           IF f # frequency \/ fs # samplingRate
           THEN SampledPointsOf(f, fs) ELSE sampledPoints
    /\ statusLabel' = StatusLabelOf(f, fs)
    /\ sampleMarkers' = SampleMarkersOf(sampledPoints')
    /\ reconstructedPath' = ReconstructedPathOf(sampledPoints')
    /\ outcome' = "returned"

VizInit ==
    /\ frequency = FREQ_INIT
    /\ samplingRate = RATE_INIT
    /\ trueSignalPoints = TrueSignalPointsOf(FREQ_INIT)
    /\ sampledPoints = SampledPointsOf(FREQ_INIT, RATE_INIT)
    /\ statusLabel = StatusLabelOf(FREQ_INIT, RATE_INIT)
    /\ sampleMarkers = SampleMarkersOf(SampledPointsOf(FREQ_INIT, RATE_INIT))
    /\ reconstructedPath = ReconstructedPathOf(SampledPointsOf(FREQ_INIT, RATE_INIT))
    /\ outcome = "returned"

\* Mutant: the earlier prototype, one fetch per move of the frequency slider.
SetFrequencyWithFetch(v) ==
    /\ v # frequency
    /\ frequency' = v
    /\ samplingRate' = samplingRate
    /\ Render(v, samplingRate)
    /\ httpRequests' = httpRequests + 1
    /\ titleEffectRan' = titleEffectRan

\* onChange={(e) => setFrequency(parseFloat(e.target.value))}: the state is
\* set and the component renders again; neither calls fetch.
SetFrequency(v) ==
    /\ v # frequency
    /\ frequency' = v
    /\ samplingRate' = samplingRate
    /\ Render(v, samplingRate)
    /\ UNCHANGED appVars

\* onChange={(e) => setSamplingRate(parseFloat(e.target.value))}
SetSamplingRate(v) ==
    /\ v # samplingRate
    /\ samplingRate' = v
    /\ frequency' = frequency
    /\ Render(frequency, v)
    /\ UNCHANGED appVars

\* ------------------------------------------------------------ TitleMessage

\* The page as first rendered: the mount effect is scheduled, nothing fetched.
AppIdle ==
    /\ titleEffectRan = FALSE
    /\ httpRequests = 0

\* useEffect(() => { fetchMessage()... }, []): runs once, after the first
\* commit; fetchMessage issues one fetch(apiUrl).
TitleMessageEffect ==
    /\ ~titleEffectRan
    /\ titleEffectRan' = TRUE
    /\ httpRequests' = httpRequests + 1

\* ------------------------------------------------------------ api.tsx

ScopeIds == {"s1", "s2"}

\* The scope of the specifications that follow one scope only.
SingleScope == {"s1"}

NotJson == [json |-> FALSE]

\* The text of a JSON document, and JSON.parse of a frame's text: the
\* document's value, or a SyntaxError for text that is no JSON.
JsonStringify(value) == [json |-> TRUE, value |-> value]
JsonParses(text) == text.json
JsonParse(text) == text.value

Conns == 1..Len(sockets)

\* No connection, no session, every scope at its first snapshot.
WsIdle ==
    /\ calls = 0
    /\ sockets = <<>>
    /\ sessions = <<>>
    /\ version = [sid \in ScopeIds |-> 0]
    /\ textSent = 0

\* const ws = new WebSocket(websocketUrl + `/${scopeId}`, 'json')
NewWebSocket(scopeId) ==
    [scopeId |-> scopeId, state |-> "Connecting", established |-> FALSE,
     wire |-> <<>>, received |-> 0, delivered |-> <<>>, errors |-> 0]

\* No StreamSession: before the connection is established and after the
\* session is destroyed.
NoSession == [live |-> FALSE, seq |-> -1, pending |-> <<>>, dropped |-> 0]

\* Mutant: a session's numbering carries on from the sessions before it.
NewSessionContinued ==
    [live |-> TRUE,
     seq |-> Cardinality({c \in 1..Len(sockets) : sockets[c].established}) - 1,
     pending |-> <<>>, dropped |-> 0]

\* A StreamSession as created on connect: nothing sent yet (seq is the last
\* sequence number sent), nothing pending; dropped counts the pending batches
\* discarded in favour of the batch now pending or last sent.
NewSession == [live |-> TRUE, seq |-> -1, pending |-> <<>>, dropped |-> 0]

\* renderScopeWebSocket(scopeId, onData, onError): one WebSocket is
\* constructed, the four handlers are installed and the socket is returned.
RenderScopeWebSocket(scopeId) ==
    /\ calls < MaxCalls
    /\ calls' = calls + 1
    /\ sockets' = Append(sockets, NewWebSocket(scopeId))
    /\ sessions' = Append(sessions, NoSession)
    /\ UNCHANGED <<version, textSent>>

\* ws.onopen: the handshake succeeded, the server created the connection's
\* session; the handler only logs.
WsOnOpen(c) ==
    /\ sockets[c].state = "Connecting"
    /\ sockets' = [sockets EXCEPT ![c].state = "Open", ![c].established = TRUE]
    /\ sessions' = [sessions EXCEPT ![c] = NewSession]
    /\ UNCHANGED <<calls, version, textSent>>

\* Mutant: one handler registry per scope, a message handed to the consumer
\* of every open connection of the scope.
WsOnMessageBroadcast(c, onDataThrows) ==
    /\ sockets[c].state = "Open"
    /\ sockets[c].wire # <<>>
    /\ onDataThrows => JsonParses(Head(sockets[c].wire))
    /\ LET text == Head(sockets[c].wire)
       IN  sockets' =
             [d \in Conns |->
                IF d = c
                THEN (IF JsonParses(text)
                      THEN [sockets[d] EXCEPT !.wire = Tail(@),
                                              !.received = @ + 1,
                                              !.delivered = Append(@, JsonParse(text)),
                                              !.errors = IF onDataThrows THEN @ + 1 ELSE @]
                      ELSE [sockets[d] EXCEPT !.wire = Tail(@),
                                              !.received = @ + 1,
                                              !.errors = @ + 1])
                ELSE IF /\ sockets[d].scopeId = sockets[c].scopeId
                        /\ sockets[d].state = "Open"
                        /\ JsonParses(text)
                     THEN [sockets[d] EXCEPT !.delivered = Append(@, JsonParse(text))]
                     ELSE sockets[d]]
    /\ UNCHANGED <<calls, sessions, version, textSent>>

\* ws.onmessage: a message event is dispatched only while the socket is
\* open, frames in arrival order.  try { const data = JSON.parse(event.data);
\* onData(data) } catch (error) { onError(error) }: the try block holds the
\* call of onData too, so what the consumer's onData throws is caught and
\* handed to onError like a SyntaxError of JSON.parse.  onDataThrows is the
\* consumer's part: whether its onData throws on this message.
WsOnMessage(c, onDataThrows) ==
    /\ sockets[c].state = "Open"
    /\ sockets[c].wire # <<>>
    /\ onDataThrows => JsonParses(Head(sockets[c].wire))
    /\ LET text == Head(sockets[c].wire)
       IN  sockets' =
             IF JsonParses(text)
             THEN [sockets EXCEPT ![c].wire = Tail(@),
                                  ![c].received = @ + 1,
                                  ![c].delivered = Append(@, JsonParse(text)),
                                  ![c].errors = IF onDataThrows THEN @ + 1 ELSE @]
             ELSE [sockets EXCEPT ![c].wire = Tail(@),
                                  ![c].received = @ + 1,
                                  ![c].errors = @ + 1]
    /\ UNCHANGED <<calls, sessions, version, textSent>>

\* Mutant: the error handler opens a replacement connection.
WsOnErrorReconnect(c) ==
    /\ sockets[c].state \in {"Connecting", "Open", "Closing"}
    /\ Len(sockets) <= MaxCalls
    /\ sockets' = Append([sockets EXCEPT ![c].state = "Errored",
                                          ![c].wire = <<>>,
                                          ![c].errors = @ + 1],
                         NewWebSocket(sockets[c].scopeId))
    /\ sessions' = Append([sessions EXCEPT ![c] = NoSession], NoSession)
    /\ UNCHANGED <<calls, version, textSent>>

\* ws.onerror: the connection failed (the handshake, the transport of an
\* open connection, or a close() before the connection was established);
\* the handler logs and calls onError(error).  Frames still in flight are
\* never dispatched, and the server destroys the connection's session.
WsOnError(c) ==
    /\ sockets[c].state \in {"Connecting", "Open", "Closing"}
    /\ sockets' = [sockets EXCEPT ![c].state = "Errored",
                                  ![c].wire = <<>>,
                                  ![c].errors = @ + 1]
    /\ sessions' = [sessions EXCEPT ![c] = NoSession]
    /\ UNCHANGED <<calls, version, textSent>>

\* The closing handshake starts: ws.close() on the socket the function
\* returned, or a close frame from the server.
BeginClose(c) ==
    /\ sockets[c].state \in {"Connecting", "Open"}
    /\ sockets' = [sockets EXCEPT ![c].state = "Closing", ![c].wire = <<>>]
    /\ sessions' = [sessions EXCEPT ![c] = NoSession]
    /\ UNCHANGED <<calls, version, textSent>>

\* Mutant: the close handler hands the consumer an end-of-stream object.
WsOnCloseNotifiesData(c) ==
    /\ \/ sockets[c].state = "Errored"
       \/ sockets[c].state = "Closing" /\ sockets[c].established
    /\ sockets' = [sockets EXCEPT ![c].state = "Closed",
                                  ![c].delivered = Append(@, [closed |-> TRUE])]
    /\ UNCHANGED <<calls, sessions, version, textSent>>

\* ws.onclose: the connection is closed, after a closing handshake of an
\* established connection or after an error; the handler only logs.
WsOnClose(c) ==
    /\ \/ sockets[c].state = "Errored"
       \/ sockets[c].state = "Closing" /\ sockets[c].established
    /\ sockets' = [sockets EXCEPT ![c].state = "Closed"]
    /\ UNCHANGED <<calls, sessions, version, textSent>>

\* ------------------------------------------------------------ server side

RECURSIVE SumOver(_, _)
SumOver(f, S) ==
    IF S = {} THEN 0
    ELSE LET x == CHOOSE y \in S : TRUE IN f[x] + SumOver(f, S \ {x})

\* Frames the server side may still originate: parameter updates and text
\* frames share one budget.
Pushes == SumOver(version, ScopeIds) + textSent

\* Mutant: every update is queued behind the ones not yet flushed.
EnqueueUnbounded(q, b) == Append(q, b)

\* A new batch for a session: with QueueDepth batches pending the oldest
\* is dropped.
Enqueue(q, b) == IF Len(q) >= QueueDepth THEN Append(Tail(q), b) ELSE Append(q, b)

\* Mutant: the session repeats its last sequence number.
NextSequenceStuck(last) == IF last < 0 THEN 0 ELSE last

\* Per batch sent: increment the sequence number; a session's first is 0.
NextSequence(last) == last + 1

\* The scope's parameters are replaced by a new snapshot; every open
\* session bound to the scope gets a batch for it.
UpdateScope(scopeId) ==
    /\ Pushes < MaxPushes
    /\ version' = [version EXCEPT ![scopeId] = @ + 1]
    /\ sessions' =
         [c \in Conns |->
            IF sockets[c].scopeId = scopeId /\ sessions[c].live
            THEN [sessions[c] EXCEPT
                    !.pending = Enqueue(@, version[scopeId] + 1),
                    !.dropped = IF Len(sessions[c].pending) >= QueueDepth
                                THEN @ + 1 ELSE 0]
            ELSE sessions[c]]
    /\ UNCHANGED <<calls, sockets, textSent>>

\* The transport accepts a batch: the oldest pending batch is sent with the
\* session's next sequence number.  Until then the session is backpressured.
ServerFlush(c) ==
    /\ sessions[c].live
    /\ sessions[c].pending # <<>>
    /\ LET n == NextSequence(sessions[c].seq)
           batch == [scopeId |-> sockets[c].scopeId, sequence |-> n,
                     snapshot |-> Head(sessions[c].pending)]
       IN  /\ sockets' = [sockets EXCEPT ![c].wire = Append(@, JsonStringify(batch))]
           /\ sessions' = [sessions EXCEPT ![c].seq = n, ![c].pending = Tail(@)]
    /\ UNCHANGED <<calls, version, textSent>>

\* The peer sends a text frame that is no JSON document.
ServerSendText(c) ==
    /\ sessions[c].live
    /\ Pushes < MaxPushes
    /\ sockets' = [sockets EXCEPT ![c].wire = Append(@, NotJson)]
    /\ textSent' = textSent + 1
    /\ UNCHANGED <<calls, sessions, version>>

\* ------------------------------------------------------------ specifications

Init == VizInit /\ AppIdle /\ WsIdle

Next ==
    \/ \E v \in FrequencyInputs : SetFrequency(v) /\ UNCHANGED wsVars
    \/ \E v \in SamplingRateInputs : SetSamplingRate(v) /\ UNCHANGED wsVars
    \/ TitleMessageEffect /\ UNCHANGED <<vizVars, wsVars>>

Spec == Init /\ [][Next]_vars

\* ------------------------------------------------------------ SpecSample
\* The sampling callback as a function of its two inputs, applied once to
\* inputs drawn from a set that also holds non-positive values.

SampleFrequencyInputs == {-10, 0, 5, 20, 50, 100}
SampleRateInputs == {-10, -5, 0, 10, 15, 40, 45, 200, 500}

SampleInit ==
    /\ frequency \in SampleFrequencyInputs
    /\ \/ samplingRate \in {v \in SampleRateInputs : v > 0}
       \/ samplingRate \in {v \in SampleRateInputs : v <= 0}
    /\ trueSignalPoints = <<>>
    /\ sampledPoints = <<>>
    /\ statusLabel = ""
    /\ sampleMarkers = <<>>
    /\ reconstructedPath = <<>>
    /\ outcome = "none"
    /\ AppIdle
    /\ WsIdle

\* The useMemo callback of sampledPoints, run once: it has no throw and no
\* early return, so it always returns the array it built.
RunSampling ==
    /\ outcome = "none"
    /\ sampledPoints' = SampledPointsOf(frequency, samplingRate)
    /\ outcome' = "returned"
    /\ UNCHANGED <<frequency, samplingRate, trueSignalPoints, statusLabel,
                   sampleMarkers, reconstructedPath>>
    /\ UNCHANGED <<appVars, wsVars>>

SampleNext == RunSampling

SpecSample == SampleInit /\ [][SampleNext]_vars

\* ------------------------------------------------------------ SpecSession
\* The streaming sessions of one scope alone, every frame a batch the server
\* serialised, the consumer's onData returning normally; the visualizer's
\* state plays no part.

SessionInit ==
    /\ frequency = FREQ_INIT
    /\ samplingRate = RATE_INIT
    /\ trueSignalPoints = <<>>
    /\ sampledPoints = <<>>
    /\ statusLabel = ""
    /\ sampleMarkers = <<>>
    /\ reconstructedPath = <<>>
    /\ outcome = "none"
    /\ AppIdle
    /\ WsIdle

SessionNext ==
    \/ \E sid \in SingleScope : RenderScopeWebSocket(sid) /\ UNCHANGED <<vizVars, appVars>>
    \/ \E c \in Conns : WsOnOpen(c) /\ UNCHANGED <<vizVars, appVars>>
    \/ \E c \in Conns : WsOnMessage(c, FALSE) /\ UNCHANGED <<vizVars, appVars>>
    \/ \E c \in Conns : WsOnError(c) /\ UNCHANGED <<vizVars, appVars>>
    \/ \E c \in Conns : BeginClose(c) /\ UNCHANGED <<vizVars, appVars>>
    \/ \E c \in Conns : WsOnClose(c) /\ UNCHANGED <<vizVars, appVars>>
    \/ \E sid \in SingleScope : UpdateScope(sid) /\ UNCHANGED <<vizVars, appVars>>
    \/ \E c \in Conns : ServerFlush(c) /\ UNCHANGED <<vizVars, appVars>>

SpecSession == SessionInit /\ [][SessionNext]_vars

\* ------------------------------------------------------------ SpecSessionText
\* The sessions with a peer that also sends text frames that are no JSON
\* and a consumer whose onData may throw.

SessionTextNext ==
    \/ SessionNext
    \/ \E c \in Conns : ServerSendText(c) /\ UNCHANGED <<vizVars, appVars>>
    \/ \E c \in Conns : WsOnMessage(c, TRUE) /\ UNCHANGED <<vizVars, appVars>>

SpecSessionText == SessionInit /\ [][SessionTextNext]_vars

\* ------------------------------------------------------------ SpecSpectators
\* Concurrent sessions on the same scope or on different scopes: the steps
\* of SpecSession, and next to a connection that has not ended a connection
\* on another scope, whose scope is updated while it has a session.  The
\* scope names are interchangeable, so the first connection is on "s1".

SpectatorNext ==
    \/ SessionNext
    \/ \E sid \in ScopeIds \ SingleScope :
          /\ \E c \in Conns : sockets[c].state \in {"Connecting", "Open"}
          /\ RenderScopeWebSocket(sid)
          /\ UNCHANGED <<vizVars, appVars>>
    \/ \E sid \in ScopeIds \ SingleScope :
          /\ \E c \in Conns : sockets[c].scopeId = sid /\ sessions[c].live
          /\ UpdateScope(sid)
          /\ UNCHANGED <<vizVars, appVars>>

SpecSpectators == SessionInit /\ [][SpectatorNext]_vars

\* ------------------------------------------------------------ claims

Zero == <<0, 1>>

\* C1: the displayed aliasing status is ALIASING exactly when fs < 2f; at
\* the boundary fs = 2f it is OK.
C1_AliasingIffBelowNyquist ==
    /\ statusLabel \in {"(ALIASING WARNING)", "(OK)"}
    /\ (statusLabel = "(ALIASING WARNING)") <=> (samplingRate < 2 * frequency)
    /\ (samplingRate = 2 * frequency) => (statusLabel = "(OK)")

C1_BoundaryIsOk ==
    /\ samplingRate = 2 * frequency
    /\ frequency # FREQ_INIT
    /\ statusLabel = "(OK)"

\* C2: the sampled sequence holds exactly floor(D * fs) + 1 samples: with
\* n + 1 samples, n <= D * fs < n + 1 (41 samples for fs = 20 Hz, D = 2).
C2_SampleCount ==
    LET n == Len(sampledPoints) - 1
    IN  /\ n >= 0
        /\ n * Scale <= DURATION * samplingRate
        /\ DURATION * samplingRate < (n + 1) * Scale
        /\ (samplingRate = 20 * Scale /\ DURATION = 2) => Len(sampledPoints) = 41

C2_TenSamplesAtFourAndAHalfHertz ==
    /\ samplingRate = 45
    /\ Len(sampledPoints) = 10

\* C3: sample i (from 0) has t = i / fs; times start at 0, increase
\* strictly along the sequence and stay within [0, D].
C3_SampleTimes ==
    /\ Len(sampledPoints) >= 1
    /\ sampledPoints[1].t = Zero
    /\ \A k \in 1..Len(sampledPoints) :
          LET t == sampledPoints[k].t
          IN  /\ IsFinite(t)
              /\ t[1] * samplingRate = (k - 1) * Scale * t[2]
              /\ RatLeq(Zero, t)
              /\ RatLeq(t, <<DURATION, 1>>)
    /\ \A k \in 1..(Len(sampledPoints) - 1) :
          RatLess(sampledPoints[k].t, sampledPoints[k + 1].t)

C3_FourSamplesAtOneAndAHalfHertz ==
    /\ samplingRate = 15
    /\ Len(sampledPoints) = 4
    /\ sampledPoints[2].t = <<2, 3>>
    /\ sampledPoints[3].t = <<4, 3>>
    /\ sampledPoints[4].t = <<2, 1>>

Invalid(f, fs) == f <= 0 \/ fs <= 0 \/ DURATION <= 0

C6_ReferencePassFixed ==
    /\ [](/\ Len(trueSignalPoints) = DURATION * 1000 + 1
          /\ \A k \in 1..Len(trueSignalPoints) :
                LET x == trueSignalPoints[k].x
                IN  /\ IsFinite(x)
                    /\ x[1] * DURATION * 1000 = 100 * (k - 1) * x[2])
    /\ [][frequency' = frequency => trueSignalPoints' = trueSignalPoints]_vars

C6_RateChangedReferenceKept ==
    /\ samplingRate = RATE_MIN
    /\ frequency = FREQ_MAX
    /\ Len(trueSignalPoints) = 2001
    /\ trueSignalPoints[2001].x = <<100, 1>>

\* The snapshots of a connection's batches in the order the server produced
\* them: those delivered, those in flight, those pending.
Snapshots(c) ==
    [i \in 1..Len(sockets[c].delivered) |-> sockets[c].delivered[i].snapshot]
        \o LET batches == SelectSeq(sockets[c].wire, JsonParses)
           IN  [i \in 1..Len(batches) |-> JsonParse(batches[i]).snapshot]
        \o sessions[c].pending

StrictlyIncreasing(q) == \A i \in 1..(Len(q) - 1) : q[i] < q[i + 1]

\* C7: the sequence numbers handed to onData on one connection increase
\* strictly in delivery order, and every connection's first is 0, also a
\* connection opened after an earlier one for the same scope ended.
C7_SequenceMonotonic ==
    \A c \in Conns :
        LET d == sockets[c].delivered
        IN  /\ d # <<>> => d[1].sequence = 0
            /\ StrictlyIncreasing([i \in 1..Len(d) |-> d[i].sequence])

C7_ReconnectStartsAtZero ==
    /\ Len(sockets) = 2
    /\ sockets[1].scopeId = sockets[2].scopeId
    /\ sockets[1].state = "Closed"
    /\ Len(sockets[1].delivered) = 2
    /\ sockets[1].delivered[2].sequence = 1
    /\ sockets[2].state = "Open"
    /\ Len(sockets[2].delivered) = 1
    /\ sockets[2].delivered[1].sequence = 0

\* C8: a session holds at most one pending batch and it is the one for the
\* latest update; what was sent last is the latest when nothing is pending;
\* no batch follows one for a later update.  Three updates before a flush
\* give one batch, for the third.
C8_DepthOneLatestOnly ==
    \A c \in Conns :
        LET sent == [i \in 1..(Len(Snapshots(c)) - Len(sessions[c].pending)) |->
                        Snapshots(c)[i]]
        IN  /\ Len(sessions[c].pending) <= 1
            /\ sessions[c].pending # <<>> =>
                   Head(sessions[c].pending) = version[sockets[c].scopeId]
            /\ (sessions[c].live /\ sessions[c].pending = <<>> /\ sent # <<>>) =>
                   sent[Len(sent)] = version[sockets[c].scopeId]
            /\ StrictlyIncreasing(Snapshots(c))

C8_ThreeUpdatesOneBatch ==
    \E c \in Conns :
        /\ sessions[c].dropped = 2
        /\ sessions[c].pending = <<>>
        /\ sockets[c].wire = <<>>
        /\ sockets[c].delivered =
               <<[scopeId |-> sockets[c].scopeId, sequence |-> 0, snapshot |-> 3]>>

TransitionsClaimed ==
    {<<"Connecting", "Open">>, <<"Open", "Closing">>, <<"Open", "Errored">>,
     <<"Closing", "Closed">>, <<"Errored", "Closed">>}

TransitionsAmended ==
    TransitionsClaimed \cup
    {<<"Connecting", "Errored">>, <<"Connecting", "Closing">>,
     <<"Closing", "Errored">>}

\* One step keeps every connection's lifecycle within `allowed`, starts a
\* new connection in Connecting with nothing delivered, and hands the
\* consumer a batch only on a connection that is and stays Open.
LifecycleStep(allowed) ==
    \A c \in 1..Len(sockets') :
        IF c \in Conns
        THEN /\ sockets'[c].state # sockets[c].state =>
                    <<sockets[c].state, sockets'[c].state>> \in allowed
             /\ sockets'[c].delivered # sockets[c].delivered =>
                    sockets[c].state = "Open" /\ sockets'[c].state = "Open"
        ELSE /\ sockets'[c].state = "Connecting"
             /\ sockets'[c].delivered = <<>>

\* C9 as claimed: only Connecting->Open, Open->Closing, Open->Errored,
\* Closing->Closed, Errored->Closed; Closed is terminal; no batch reaches
\* onData before Open or after Closed.
C9_LifecycleAsClaimed == [][LifecycleStep(TransitionsClaimed)]_vars

\* C9 amended: the same with Connecting->Errored (the handshake fails),
\* Connecting->Closing (close before the connection is established) and
\* Closing->Errored (failure while closing) added.
C9_LifecycleAmended == [][LifecycleStep(TransitionsAmended)]_vars

C9_CleanCloseAndFailedHandshake ==
    /\ Len(sockets) = 2
    /\ sockets[1].state = "Closed"
    /\ sockets[1].errors = 0
    /\ sockets[1].delivered # <<>>
    /\ sockets[2].state = "Errored"
    /\ ~sockets[2].established

\* C10: every call of renderScopeWebSocket creates exactly one connection
\* and nothing else creates one: no error and no close opens another.
C10_OneConnectionPerCall ==
    /\ Len(sockets) = calls
    /\ Len(sessions) = calls

C10_ErrorThenNoRetry ==
    /\ calls = 1
    /\ Len(sockets) = 1
    /\ sockets[1].state = "Closed"
    /\ sockets[1].errors = 1

\* C11: whenever an established connection has ended, by an error or by a
\* close, the consumer has been told through a callback (onError is the only
\* one there is for it).  Closed is terminal and no handler runs after it,
\* so a callback not made by then is never made.  Under SpecSession every
\* frame is JSON and onData returns, so errors counts the calls of onError
\* that ws.onerror made.
C11_EndOfSessionSignalled ==
    \A c \in Conns :
        (sockets[c].established /\ sockets[c].state = "Closed")
            => sockets[c].errors >= 1

\* C12: what is shown together is computed from the one current pair
\* (frequency, samplingRate): the reference curve from the current
\* frequency, the samples from the current frequency and rate, the status
\* from both; no memoised value is left over from an earlier pair.
C12_NoTornSnapshot ==
    /\ trueSignalPoints = TrueSignalPointsOf(frequency)
    /\ sampledPoints = SampledPointsOf(frequency, samplingRate)
    /\ \A k \in 1..Len(sampledPoints) :
          /\ sampledPoints[k].t = Rat((k - 1) * Scale, samplingRate)
          /\ sampledPoints[k].y.sinTurns = Rat(frequency * (k - 1), samplingRate)
    /\ \A k \in 1..Len(trueSignalPoints) :
          trueSignalPoints[k].y.sinTurns = Rat(frequency * (k - 1), Scale * resolution)
    /\ (statusLabel = "(ALIASING WARNING)") <=> (samplingRate < 2 * frequency)

C12_BothSlidersMoved ==
    /\ frequency = 50
    /\ samplingRate = 45
    /\ statusLabel = "(ALIASING WARNING)"
    /\ Len(sampledPoints) = 10
    /\ sampledPoints[2].y.sinTurns = <<10, 9>>
    /\ trueSignalPoints[2].y.sinTurns = <<1, 200>>

\* C13: a slider change issues no HTTP request and opens no connection;
\* what it shows afterwards is recomputed locally from the new values.
C13_NoRequestPerInteraction ==
    [][(frequency' # frequency \/ samplingRate' # samplingRate) =>
          /\ httpRequests' = httpRequests
          /\ calls' = calls
          /\ sampledPoints' = SampledPointsOf(frequency', samplingRate')
          /\ trueSignalPoints' = TrueSignalPointsOf(frequency')]_vars

C13_SlidersMovedOneRequest ==
    /\ frequency = 77
    /\ samplingRate = 495
    /\ titleEffectRan
    /\ httpRequests = 1

\* C14: sessions are independent.  Always: one session record per
\* connection, live exactly while the connection is Open.  In every step:
\* an event on one connection changes that connection only (its state, its
\* callbacks' calls) and no other connection's socket or session; what a
\* consumer has been handed is only ever extended at its end; a new
\* connection leaves the existing ones alone; a scope update reaches only
\* the sessions bound to that scope.
C14_SessionsIndependent ==
    /\ [](/\ Len(sessions) = Len(sockets)
          /\ \A c \in Conns : sessions[c].live <=> sockets[c].state = "Open")
    /\ [][IF sockets' = sockets
          THEN \A c \in Conns :
                  sessions'[c] # sessions[c] =>
                      version'[sockets[c].scopeId] # version[sockets[c].scopeId]
          ELSE IF Len(sockets') > Len(sockets)
          THEN \A c \in Conns : sockets'[c] = sockets[c] /\ sessions'[c] = sessions[c]
          ELSE \E c \in Conns :
                  /\ \A d \in Conns \ {c} :
                        sockets'[d] = sockets[d] /\ sessions'[d] = sessions[d]
                  /\ \/ sockets'[c].delivered = sockets[c].delivered
                     \/ sockets'[c].delivered =
                            Append(sockets[c].delivered,
                                   sockets'[c].delivered[Len(sockets'[c].delivered)])]_vars

C14_OneFailsOtherCarriesOn ==
    /\ Len(sockets) = 2
    /\ sockets[1].scopeId = "s1"
    /\ sockets[2].scopeId = "s2"
    /\ sockets[2].state = "Closed"
    /\ sockets[2].errors = 1
    /\ sockets[2].delivered # <<>>
    /\ sockets[1].state = "Open"
    /\ sessions[1].live
    /\ Len(sockets[1].delivered) = 1
    /\ sockets[1].errors = 0

\* C15: whatever the sliders did, the sampling parameters are positive
\* (f > 0, fs > 0, D > 0) and there is at least one sample.
C15_ParametersValid ==
    /\ frequency > 0
    /\ samplingRate > 0
    /\ DURATION > 0
    /\ Len(sampledPoints) >= 1

C15_BothSlidersAtMinimum ==
    /\ frequency = FREQ_MIN
    /\ samplingRate = RATE_MIN
    /\ Len(sampledPoints) = 3

Hundred == <<100, 1>>

\* x values within [0, 100] and non-decreasing along the sequence.
WithinWidthAndOrdered(xs) ==
    /\ \A k \in 1..Len(xs) : RatLeq(Zero, xs[k]) /\ RatLeq(xs[k], Hundred)
    /\ \A k \in 1..(Len(xs) - 1) : RatLeq(xs[k], xs[k + 1])

\* C16: both sequences are projected by the one mapping x = 100 * t / D
\* (sample k at t = (k - 1) / fs, reference point k at t = (k - 1) / 1000),
\* so every x is within [0, 100] and x never decreases along a sequence.
C16_LinearProjection ==
    /\ \A k \in 1..Len(sampledPoints) :
          LET p == sampledPoints[k]
          IN  /\ IsFinite(p.x)
              /\ p.x[1] * p.t[2] * DURATION = 100 * p.t[1] * p.x[2]
    /\ \A k \in 1..Len(trueSignalPoints) :
          LET x == trueSignalPoints[k].x
          IN  /\ IsFinite(x)
              /\ x[1] * 1000 * DURATION = 100 * (k - 1) * x[2]
    /\ WithinWidthAndOrdered([k \in 1..Len(sampledPoints) |-> sampledPoints[k].x])
    /\ WithinWidthAndOrdered([k \in 1..Len(trueSignalPoints) |-> trueSignalPoints[k].x])

C16_ThirdsOfTheWidth ==
    /\ samplingRate = 15
    /\ frequency # FREQ_INIT
    /\ sampledPoints[1].x = Zero
    /\ sampledPoints[2].x = <<100, 3>>
    /\ sampledPoints[4].x = Hundred
    /\ trueSignalPoints[1].x = Zero
    /\ trueSignalPoints[2001].x = Hundred

\* C17: the path through the samples has one vertex per sample and per
\* marker, at the marker's position, in the samples' order, which is the
\* order of increasing t; each vertex is the sample of the current signal at
\* its t, whether the status is OK or the aliasing warning.
C17_PathVerticesAreSamples ==
    /\ Len(reconstructedPath) = Len(sampledPoints)
    /\ Len(sampleMarkers) = Len(sampledPoints)
    /\ \A k \in 1..Len(reconstructedPath) :
          /\ reconstructedPath[k].cmd = (IF k = 1 THEN "M" ELSE "L")
          /\ reconstructedPath[k].x = sampledPoints[k].x
          /\ reconstructedPath[k].y = sampledPoints[k].y
          /\ sampleMarkers[k].left = reconstructedPath[k].x
          /\ sampleMarkers[k].top = reconstructedPath[k].y
          /\ reconstructedPath[k].y.sinTurns = Rat(frequency * (k - 1), samplingRate)
    /\ \A k \in 1..(Len(sampledPoints) - 1) :
          RatLess(sampledPoints[k].t, sampledPoints[k + 1].t)

C17_AliasedPathOfThreeSamples ==
    /\ statusLabel = "(ALIASING WARNING)"
    /\ frequency = FREQ_MAX
    /\ samplingRate = RATE_MIN
    /\ Len(reconstructedPath) = 3
    /\ reconstructedPath[2].cmd = "L"
    /\ reconstructedPath[2].x = <<50, 1>>
    /\ reconstructedPath[2].y.sinTurns = <<10, 1>>
    /\ sampleMarkers[3].left = Hundred

\* A step is the dispatch of a message event on connection c.
MessageStep(c) == sockets'[c].received = sockets[c].received + 1

\* C18: each message received leads to exactly one callback: onData with
\* the parsed value and no onError when the text is JSON, onError and no
\* onData when it is not; the connection stays open either way.
C18_OneCallbackPerMessage ==
    [][\A c \in Conns :
          MessageStep(c) =>
              LET text == Head(sockets[c].wire)
              IN  /\ sockets'[c].state = "Open"
                  /\ sockets'[c].wire = Tail(sockets[c].wire)
                  /\ IF JsonParses(text)
                     THEN /\ sockets'[c].delivered =
                                 Append(sockets[c].delivered, JsonParse(text))
                          /\ sockets'[c].errors = sockets[c].errors
                     ELSE /\ sockets'[c].delivered = sockets[c].delivered
                          /\ sockets'[c].errors = sockets[c].errors + 1]_vars

====
